---- MODULE Spec2Model ----
(***************************************************************************)
(* A model of library/flrtvc.py: the candidate check check_epkgs, the      *)
(* timestamp conversion to_utc_epoch, the collection threads of run_flrtvc *)
(* with the part of main that follows them, the parsers parse_lpps_info    *)
(* and parse_emgr, and download.                                           *)
(*                                                                         *)
(* Text is modelled as a sequence of lexemes (strings): a version string   *)
(* "7.1" is <<"7", ".", "1">>, a path "/dst/a.epkg.Z" is                   *)
(* <<"/dst/", "a.epkg.Z">>, a reject reason is the sequence of the         *)
(* pieces its format string joins.  Python's False / '' / None for "not    *)
(* set" are the empty sequence, "" and NoDate.                             *)
(***************************************************************************)
EXTENDS Integers, Sequences, FiniteSets, TLC

\* ------------------------------------------------------------------ bounds
MaxEpkgs == 3
MaxLines == 3
MaxUnread == 1
MaxLevel == 2
MaxListing == 3
MaxRetries == 2
MaxEmgrLines == 4

\* ------------------------------------------------------------ input values
EpkgNames == <<"a.epkg.Z", "b.epkg.Z", "c.epkg.Z", "d.epkg.Z", "e.epkg.Z">>
\* The directory the candidates are downloaded to (dst_path).
DstPath == "/var/adm/ansible/"
Files == {"/usr/f1", "/usr/f2"}
EfixLabels == {"IJ1", "IJ2"}
Comps == {"bos.net", "bos.rte"}
Numerals == <<"0", "1", "2", "3", "4", "5", "6", "7", "8", "9", "10">>

\* The version strings "7.1" .. "7.<MaxLevel>".
LevelStrs == {<<"7", ".", Numerals[k + 1]>> : k \in 1..MaxLevel}

\* ----------------------------------------------------------------- helpers
Range(s) == {s[i] : i \in DOMAIN s}

\* All sequences without repetition that list exactly the elements of S.
Perms(S) ==
  {s \in [1..Cardinality(S) -> S] : \A i, j \in 1..Cardinality(S) : s[i] = s[j] => i = j}

\* All sequences over S of length 0..n.
SeqsUpTo(S, n) == UNION {[1..k -> S] : k \in 0..n}

basename(path) == path[Len(path)]

\* int(s) of a numeral.
int(s) == (CHOOSE i \in DOMAIN Numerals : Numerals[i] = s) - 1

\* s.split('.') of a version string.
split(s) == SelectSeq(s, LAMBDA t : t # ".")

\* list(map(int, s.split('.')))
IntList(s) == [i \in DOMAIN split(s) |-> int(split(s)[i])]

\* Python's a < b on lists of integers.
RECURSIVE ListLess(_, _)
ListLess(a, b) ==
  IF b = <<>> THEN FALSE
  ELSE IF a = <<>> THEN TRUE
  ELSE IF Head(a) # Head(b) THEN Head(a) < Head(b)
  ELSE ListLess(Tail(a), Tail(b))

\* The lexemes of the reject reasons in the order of Python's string comparison.
StrOrder ==
  <<" < ", " is locking ", " levels do not match: ", ".", "/usr/f1", "/usr/f2",
    "0", "1", "10", "2", "3", "4", "5", "6", "7", "8", "9",
    ": installed efix ", ": locked by previous efix to install", ": prerequisite ",
    "IJ1", "IJ2", "a.epkg.Z", "b.epkg.Z", "c.epkg.Z", "d.epkg.Z", "e.epkg.Z",
    "bos.net", "bos.rte", "missing: ">>

StrRank(t) == CHOOSE i \in DOMAIN StrOrder : StrOrder[i] = t

\* Python's a < b on the strings the lexeme sequences a and b spell.
RECURSIVE StrLess(_, _)
StrLess(a, b) ==
  IF b = <<>> THEN FALSE
  ELSE IF a = <<>> THEN TRUE
  ELSE IF Head(a) # Head(b) THEN StrRank(Head(a)) < StrRank(Head(b))
  ELSE StrLess(Tail(a), Tail(b))

\* sorted(l) of a list of strings.
RECURSIVE InsertStr(_, _)
InsertStr(l, x) ==
  IF l = <<>> THEN <<x>>
  ELSE IF StrLess(x, Head(l)) THEN <<x>> \o l
  ELSE <<Head(l)>> \o InsertStr(Tail(l), x)

\* Variant: the list is left in the order the reasons were produced.
sortedNot(l) == l

RECURSIVE sorted(_)
sorted(l) == IF l = <<>> THEN <<>> ELSE InsertStr(sorted(SubSeq(l, 1, Len(l) - 1)), l[Len(l)])

\* ------------------------------------------------------------ to_utc_epoch
NoDate ==
  [fmt |-> "none", year |-> 0, month |-> 0, day |-> 0,
   hour |-> 0, minute |-> 0, second |-> 0, tz |-> ""]

\* The table shift of to_utc_epoch, in seconds (shift[TZ] * 3600).
ShiftTZ == {"CDT", "CEST", "CET", "CST", "CT", "EDT", "EET", "EST", "ET", "IST", "JST",
            "MSK", "MT", "NZST", "PDT", "PST", "SAST", "UTC", "WEST", "WET"}

\* Variant: the offsets are whole hours (5.5 read as 5).
shiftWholeHours(tz) ==
  IF tz = "IST" THEN 5 * 3600
  ELSE IF tz \in {"CDT", "EST", "ET"} THEN -5 * 3600
  ELSE IF tz = "JST" THEN 9 * 3600
  ELSE 0

shift(tz) ==
  CASE tz = "CDT" -> -5 * 3600 [] tz = "CEST" -> 2 * 3600 [] tz = "CET" -> 1 * 3600
    [] tz = "CST" -> -6 * 3600 [] tz = "CT" -> -6 * 3600 [] tz = "EDT" -> -4 * 3600
    [] tz = "EET" -> 2 * 3600 [] tz = "EST" -> -5 * 3600 [] tz = "ET" -> -5 * 3600
    [] tz = "IST" -> 19800 [] tz = "JST" -> 9 * 3600 [] tz = "MSK" -> 3 * 3600
    [] tz = "MT" -> 2 * 3600 [] tz = "NZST" -> 12 * 3600 [] tz = "PDT" -> -7 * 3600
    [] tz = "PST" -> -8 * 3600 [] tz = "SAST" -> 2 * 3600 [] tz = "UTC" -> 0
    [] tz = "WEST" -> 1 * 3600 [] tz = "WET" -> 0

IsLeap(y) == (y % 4 = 0 /\ y % 100 # 0) \/ y % 400 = 0

DaysInMonth(y, m) ==
  IF m = 2 THEN (IF IsLeap(y) THEN 29 ELSE 28)
  ELSE IF m \in {4, 6, 9, 11} THEN 30 ELSE 31

\* Days from 1970-01-01 to y-m-d in the proleptic Gregorian calendar.
DaysFromCivil(y, m, d) ==
  LET yy == IF m <= 2 THEN y - 1 ELSE y
      era == yy \div 400
      yoe == yy - era * 400
      mp == IF m > 2 THEN m - 3 ELSE m + 9
      doy == (153 * mp + 2) \div 5 + d - 1
      doe == yoe * 365 + yoe \div 4 - yoe \div 100 + doy
  IN era * 146097 + doe - 719468

\* time.strptime(date, "%a %b %d %H:%M:%S %Z %Y") raises ValueError.
StrptimeFails(date) ==
  \/ date.month \notin 1..12
  \/ date.day \notin 1..DaysInMonth(date.year, date.month)
  \/ date.hour \notin 0..23
  \/ date.minute \notin 0..59
  \/ date.second \notin 0..61

\* calendar.timegm of the parsed wall-clock time.
timegm(date) ==
  DaysFromCivil(date.year, date.month, date.day) * 86400
    + date.hour * 3600 + date.minute * 60 + date.second

to_utc_epoch(date) ==
  IF date.fmt \notin {"notz", "tz"}
    THEN [sec |-> -1, msg |-> "bad packaging date format"]
  ELSE IF StrptimeFails(date)
    THEN [sec |-> -1, msg |-> "EXCEPTION: cannot parse packaging date"]
  ELSE LET TZ == IF date.fmt = "notz" THEN "UTC" ELSE date.tz
       IN IF TZ \notin ShiftTZ
            THEN [sec |-> timegm(date) - shift("UTC"),
                  msg |-> "Unsuported Time Zone: \"TZ\", using \"UTC\""]
            ELSE [sec |-> timegm(date) - shift(TZ), msg |-> ""]

\* ------------------------------------------------------- check_epkgs: input
Path(n) == <<DstPath, EpkgNames[n]>>

\* epkg_list: the downloaded candidates, distinct paths.
Batches == {[i \in 1..n |-> Path(i)] : n \in 1..MaxEpkgs}

\* lpps as parse_lpps_info builds it: component -> display string and ordinal.
InstalledLevelTables ==
  {[c \in {"bos.rte"} |-> [str |-> v, int |-> IntList(v)]] : v \in LevelStrs}

\* efixes as parse_emgr builds it, in the iteration order of the dictionary.
InstalledPatchTables ==
  { <<>>,
    <<[label |-> "IJ1", files |-> {"/usr/f1"}]>>,
    <<[label |-> "IJ1", files |-> {"/usr/f1"}],
      [label |-> "IJ2", files |-> {"/usr/f1", "/usr/f2"}]>>,
    <<[label |-> "IJ2", files |-> {"/usr/f1", "/usr/f2"}],
      [label |-> "IJ1", files |-> {"/usr/f1"}]>> }

\* "Mon Oct  9 23:35:09 CDT 2017", "Tue Oct 10 01:00:00 2017",
\* "Tue Oct 10 09:00:00 JST 2017" and a date with day 31 in a 30-day month,
\* which strptime rejects.
PkgDates ==
  { [fmt |-> "tz", year |-> 2017, month |-> 10, day |-> 9,
     hour |-> 23, minute |-> 35, second |-> 9, tz |-> "CDT"],
    [fmt |-> "notz", year |-> 2017, month |-> 10, day |-> 10,
     hour |-> 1, minute |-> 0, second |-> 0, tz |-> ""],
    [fmt |-> "tz", year |-> 2017, month |-> 10, day |-> 10,
     hour |-> 9, minute |-> 0, second |-> 0, tz |-> "JST"],
    [fmt |-> "tz", year |-> 2017, month |-> 9, day |-> 31,
     hour |-> 0, minute |-> 0, second |-> 0, tz |-> "UTC"] }

\* One line of the output of 'emgr -dXv3 -e <epkg> | grep -p -e PREREQ -e PACKAG'.
Line(kind, name, minlvl, maxlvl, date) ==
  [kind |-> kind, name |-> name, minlvl |-> minlvl, maxlvl |-> maxlvl, date |-> date]

PrereqLines ==
  {Line("PREREQ", c, lo, hi, NoDate) : c \in Comps, lo \in LevelStrs, hi \in LevelStrs}

Lines ==
  {Line("COMMENT", "", <<>>, <<>>, NoDate), Line("LABEL", "IJ02726s8a", <<>>, <<>>, NoDate),
   Line("PACKAGE", "bos.rte", <<>>, <<>>, NoDate)}
    \cup {Line("DATE", "", <<>>, <<>>, d) : d \in PkgDates}
    \cup {Line("LOCATION", f, <<>>, <<>>, NoDate) : f \in Files}
    \cup PrereqLines

\* ------------------------------------------------------- check_epkgs: state
VARIABLES
  epkg_list,          \* argument: the candidates
  lpps,               \* argument: installed levels
  efixes,             \* argument: installed patches
  pc,                 \* position in check_epkgs
  idx,                \* position of 'for epkg_path in epkg_list'
  epkg,               \* the record of the candidate being examined
  left,               \* lines of stdout not read yet
  unread,             \* prerequisite lines of stdout left unread at the break
  locked_files,       \* file -> installed efix, as a set of [file, efix]
  fidx,               \* position of 'for file in epkg["files"]'
  epkgs_info,         \* the kept candidates, in insertion order
  epkgs_reject,       \* the reject reasons
  messages,           \* results['meta']['messages']
  sorted_epkgs,       \* the candidates by packaging date
  global_file_locks,  \* files of the candidates kept so far
  removed_epkg,       \* the interlocked candidates
  sidx,               \* position of 'for epkg in sorted_epkgs'
  rpc,                \* position of main and of the functions it calls
  clean,              \* module.params['clean']
  check_only,         \* module.params['check_only']
  download_only,      \* module.params['download_only']
  exists,             \* listing file of a collection thread -> it exists
  stale,              \* listing file of a collection thread -> it was there when main began
  thr,                \* collection thread -> "none", "started", "ran" or "terminated"
  trc,                \* collection thread -> return code of its command ("-1": not run)
  THRDS,              \* the list the started threads are appended to
  jidx,               \* position of 'for thd in thds' in wait_threaded
  results,            \* results: changed, msg and the keys of meta besides messages
  workdir_exists,     \* the working directory exists
  exit,               \* how the module ended: "", "exit_json", "fail_json", "exception"
  dst_files,          \* the files under dst_path that are not under the working directory
  check,              \* results['meta']['4.2.check']
  iidx,               \* position of 'for epkg in epkgs' in run_installer
  epkgs_base,         \* run_installer: the basenames of the candidates copied
  geninstall,         \* the names given to geninstall, in order
  dpc,                \* to_utc_epoch: "call" or "return"
  date,               \* to_utc_epoch: the date given
  epoch,              \* to_utc_epoch: the pair (sec_from_epoch, msg) returned
  lpc,                \* parse_lpps_info: "loop", "return" or "raise"
  lslpp,              \* the lines of lslpp.txt
  lidx,               \* position of 'for myline in myfile'
  lpps_lvl,           \* parse_lpps_info: the table being built
  wpc,                \* download: "call", "wget", "rc3", "return" or "raise"
  src,                \* download: the URL to download
  dst_isfile,         \* download: os.path.isfile(dst)
  dst_existed,        \* download: dst was there when download was first called
  wget_exists,        \* download: os.path.exists('/bin/wget')
  resize_fs,          \* download: the argument resize_fs
  wrc,                \* download: the return code of the last wget run ("": none)
  calls,              \* download: the number of recursive calls made
  res,                \* download: the value returned
  gpc,                \* parse_emgr: "loop" or "return"
  emgr,               \* the lines of emgr.txt
  gidx,               \* position of 'for line in myfile'
  label,              \* parse_emgr: the current label
  emgr_efixes         \* parse_emgr: the dictionary being built

\* The state of check_epkgs, but for the messages.
cvars ==
  <<epkg_list, lpps, efixes, pc, idx, epkg, left, unread, locked_files, fidx, epkgs_info,
    epkgs_reject, sorted_epkgs, global_file_locks, removed_epkg, sidx>>

\* The state of main and run_flrtvc.
rvars ==
  <<rpc, clean, check_only, download_only, stale, exists, thr, trc, THRDS, jidx, results,
    workdir_exists, exit, dst_files, check, iidx, epkgs_base, geninstall>>

\* The state of run_downloader and run_installer.
ivars == <<dst_files, check, iidx, epkgs_base, geninstall>>

\* The state of to_utc_epoch, parse_lpps_info, download and parse_emgr.
dvars == <<dpc, date, epoch>>
lvars == <<lpc, lslpp, lidx, lpps_lvl>>
wvars == <<wpc, src, dst_isfile, dst_existed, wget_exists, resize_fs, wrc, calls, res>>
gvars == <<gpc, emgr, gidx, label, emgr_efixes>>
fvars == <<dvars, lvars, wvars, gvars>>

vars == <<cvars, messages, rvars, fvars>>

\* The dictionary of lines 496-503.  'filesets' and 'prereq' are written and never
\* read after the pass that wrote them, and are left out; False is the empty reason.
NewEpkg(path) ==
  [path |-> path, label |-> "", pkg_date |-> NoDate, sec_from_epoch |-> -1,
   files |-> <<>>, reject |-> <<>>]

\* The fields of a kept candidate that are read after line 614.
Kept(e) ==
  [path |-> e.path, files |-> e.files, sec_from_epoch |-> e.sec_from_epoch,
   reject |-> e.reject]

\* Variant: the last efix that lists a file owns it.
RECURSIVE BuildLockedFilesLast(_, _)
BuildLockedFilesLast(table, locked) ==
  IF table = <<>> THEN locked
  ELSE BuildLockedFilesLast(
         Tail(table),
         {l \in locked : l.file \notin Head(table).files}
           \cup {[file |-> f, efix |-> Head(table).label] : f \in Head(table).files})

\* Lines 487-491: the first efix that lists a file owns it.
RECURSIVE BuildLockedFiles(_, _)
BuildLockedFiles(table, locked) ==
  IF table = <<>> THEN locked
  ELSE BuildLockedFiles(
         Tail(table),
         locked \cup {[file |-> f, efix |-> Head(table).label] :
                        f \in {g \in Head(table).files : \A l \in locked : l.file # g}})

IsLocked(file) == \E l \in locked_files : l.file = file
LockedBy(file) == (CHOOSE l \in locked_files : l.file = file).efix

\* The reject reasons of lines 569, 578, 597 and 634.
MissingReason(path, prereq) == <<basename(path), ": prerequisite ", "missing: ", prereq>>

MismatchReason(path, prereq, minlvl, lvl, maxlvl) ==
  <<basename(path), ": prerequisite ", prereq, " levels do not match: ">>
    \o minlvl \o <<" < ">> \o lvl \o <<" < ">> \o maxlvl

LockedReason(path, efix, file) ==
  <<basename(path), ": installed efix ", efix, " is locking ", file>>

InterlockReason(path) == <<basename(path), ": locked by previous efix to install">>

\* Variant: only the lower bound is checked.
LevelsBelowMin(lvl, minlvl, maxlvl) == ListLess(lvl, IntList(minlvl))

\* Variant: the bounds themselves are outside the range.
LevelsNotStrictlyInside(lvl, minlvl, maxlvl) ==
  ~ListLess(IntList(minlvl), lvl) \/ ~ListLess(lvl, IntList(maxlvl))

\* Lines 576-577.
LevelsDoNotMatch(lvl, minlvl, maxlvl) ==
  ListLess(lvl, IntList(minlvl)) \/ ListLess(IntList(maxlvl), lvl)

EInit ==
  /\ epkg_list \in Batches
  /\ lpps \in InstalledLevelTables
  /\ efixes \in InstalledPatchTables
  /\ pc = "locked"
  /\ idx = 1
  /\ epkg = NewEpkg(<<>>)
  /\ left = 0
  /\ unread = <<>>
  /\ locked_files = {}
  /\ fidx = 1
  /\ epkgs_info = <<>>
  /\ epkgs_reject = <<>>
  /\ messages = <<>>
  /\ sorted_epkgs = <<>>
  /\ global_file_locks = <<>>
  /\ removed_epkg = <<>>
  /\ sidx = 1

\* ----------------------------------------------------- check_epkgs: actions
\* Lines 485-492.
LockFiles ==
  /\ pc = "locked"
  /\ locked_files' = BuildLockedFiles(efixes, {})
  /\ pc' = "epkg"
  /\ UNCHANGED <<epkg_list, lpps, efixes, idx, epkg, left, unread, fidx, epkgs_info,
                 epkgs_reject, messages, sorted_epkgs, global_file_locks, removed_epkg, sidx>>
  /\ UNCHANGED rvars
  /\ UNCHANGED fvars

\* Variant: a candidate whose describe query failed is skipped.
GetEfixInfoSkipFailed ==
  /\ pc = "epkg"
  /\ idx <= Len(epkg_list)
  /\ \E rc \in {0, 1} :
       IF rc # 0
         THEN /\ messages' =
                   Append(messages, <<"Cannot get efix information ">> \o epkg_list[idx])
              /\ idx' = idx + 1
              /\ UNCHANGED <<epkg, left, pc>>
         ELSE /\ messages' = messages
              /\ epkg' = NewEpkg(epkg_list[idx])
              /\ left' \in 0..MaxLines
              /\ pc' = "parse"
              /\ idx' = idx
  /\ UNCHANGED <<epkg_list, lpps, efixes, unread, locked_files, fidx, epkgs_info,
                 epkgs_reject, sorted_epkgs, global_file_locks, removed_epkg, sidx>>
  /\ UNCHANGED rvars
  /\ UNCHANGED fvars

\* Lines 495-516: the next candidate and its describe query.  The return code
\* is that of grep, the last command of the pipe: non-zero when it selected no
\* line, so that stdout is empty.
GetEfixInfo ==
  /\ pc = "epkg"
  /\ idx <= Len(epkg_list)
  /\ epkg' = NewEpkg(epkg_list[idx])
  /\ \E rc \in {0, 1} :
       IF rc # 0
         THEN /\ messages' =
                   Append(messages, <<"Cannot get efix information ">> \o epkg_list[idx])
              /\ left' = 0
         ELSE /\ messages' = messages
              /\ left' \in 0..MaxLines
  /\ pc' = "parse"
  /\ UNCHANGED <<epkg_list, lpps, efixes, idx, unread, locked_files, fidx, epkgs_info,
                 epkgs_reject, sorted_epkgs, global_file_locks, removed_epkg, sidx>>
  /\ UNCHANGED rvars
  /\ UNCHANGED fvars

\* Variant: a prerequisite that is not installed is not checked.
PrereqRejectInstalledOnly(path, line) ==
  IF line.name \in DOMAIN lpps
       /\ LevelsDoNotMatch(lpps[line.name].int, line.minlvl, line.maxlvl)
    THEN MismatchReason(path, line.name, line.minlvl, lpps[line.name].str, line.maxlvl)
    ELSE <<>>

\* Lines 568-585: the reason the prerequisite line rejects the candidate for,
\* or the empty reason.
PrereqReject(path, line) ==
  IF line.name \notin DOMAIN lpps
    THEN MissingReason(path, line.name)
  ELSE IF LevelsDoNotMatch(lpps[line.name].int, line.minlvl, line.maxlvl)
    THEN MismatchReason(path, line.name, line.minlvl, lpps[line.name].str, line.maxlvl)
  ELSE <<>>

\* Lines 520-585: one pass of 'for line in stdout.splitlines()'.
ParseLine(line) ==
  /\ pc = "parse"
  /\ left > 0
  /\ left' = left - 1
  /\ IF line.kind = "COMMENT"
       THEN UNCHANGED <<epkg, pc, unread>>
     ELSE IF epkg.label = "" /\ line.kind = "LABEL"
       THEN epkg' = [epkg EXCEPT !.label = line.name] /\ UNCHANGED <<pc, unread>>
     ELSE IF epkg.pkg_date = NoDate /\ line.kind = "DATE"
       THEN epkg' = [epkg EXCEPT !.pkg_date = line.date] /\ UNCHANGED <<pc, unread>>
     ELSE IF line.kind = "PACKAGE"
       THEN UNCHANGED <<epkg, pc, unread>>
     ELSE IF line.kind = "LOCATION"
       THEN /\ epkg' = IF line.name \in Range(epkg.files) THEN epkg
                       ELSE [epkg EXCEPT !.files = Append(@, line.name)]
            /\ UNCHANGED <<pc, unread>>
     ELSE IF line.kind # "PREREQ"
       THEN UNCHANGED <<epkg, pc, unread>>
     ELSE /\ epkg' = [epkg EXCEPT !.reject = PrereqReject(epkg.path, line)]
          /\ IF PrereqReject(epkg.path, line) # <<>>
               THEN /\ pc' = "break"
                    /\ \E n \in 0..MaxUnread :
                         /\ n <= left'
                         /\ unread' \in [1..n -> PrereqLines]
               ELSE UNCHANGED <<pc, unread>>
  /\ UNCHANGED <<epkg_list, lpps, efixes, idx, locked_files, fidx, epkgs_info, epkgs_reject,
                 messages, sorted_epkgs, global_file_locks, removed_epkg, sidx>>
  /\ UNCHANGED rvars
  /\ UNCHANGED fvars

\* Lines 586-588, after the parsing loop ended or broke.  With the continue the
\* record of this candidate is dead (line 496 binds a new one): it is dropped.
AfterParse ==
  /\ \/ pc = "parse" /\ left = 0
     \/ pc = "break"
  /\ IF epkg.reject # <<>>
       THEN /\ epkgs_reject' = Append(epkgs_reject, epkg.reject)
            /\ idx' = idx + 1
            /\ epkg' = NewEpkg(<<>>)
            /\ pc' = "epkg"
       ELSE /\ pc' = "files"
            /\ UNCHANGED <<epkgs_reject, idx, epkg>>
  /\ fidx' = 1
  /\ unread' = <<>>
  /\ left' = 0
  /\ UNCHANGED <<epkg_list, lpps, efixes, locked_files, epkgs_info, messages,
                 sorted_epkgs, global_file_locks, removed_epkg, sidx>>
  /\ UNCHANGED rvars
  /\ UNCHANGED fvars

\* Lines 591-601: one pass of 'for file in epkg["files"]'; its continue goes on
\* with the next file.
CheckLockedFile ==
  /\ pc = "files"
  /\ fidx <= Len(epkg.files)
  /\ LET file == epkg.files[fidx]
     IN IF IsLocked(file)
          THEN /\ messages' =
                    Append(messages,
                           <<"installed efix ", LockedBy(file), " is locking ", file,
                             " preventing the installation of ", basename(epkg.path)>>)
               /\ epkg' = [epkg EXCEPT !.reject = LockedReason(epkg.path, LockedBy(file), file)]
               /\ epkgs_reject' =
                    Append(epkgs_reject, LockedReason(epkg.path, LockedBy(file), file))
          ELSE UNCHANGED <<messages, epkg, epkgs_reject>>
  /\ fidx' = fidx + 1
  /\ UNCHANGED <<epkg_list, lpps, efixes, pc, idx, left, unread, locked_files, epkgs_info,
                 sorted_epkgs, global_file_locks, removed_epkg, sidx>>
  /\ UNCHANGED rvars
  /\ UNCHANGED fvars

\* Lines 607-612.
SecFromEpoch(e) ==
  IF e.pkg_date # NoDate THEN to_utc_epoch(e.pkg_date).sec ELSE e.sec_from_epoch

\* Lines 602-614, after the loop over the files.
KeepEpkg ==
  /\ pc = "files"
  /\ fidx > Len(epkg.files)
  /\ IF epkg.reject # <<>>
       THEN UNCHANGED epkgs_info
       ELSE epkgs_info' =
              Append(epkgs_info, Kept([epkg EXCEPT !.sec_from_epoch = SecFromEpoch(epkg)]))
  /\ idx' = idx + 1
  /\ epkg' = NewEpkg(<<>>)
  /\ fidx' = 1
  /\ pc' = "epkg"
  /\ UNCHANGED <<epkg_list, lpps, efixes, left, unread, locked_files,
                 epkgs_reject, messages, sorted_epkgs, global_file_locks, removed_epkg, sidx>>
  /\ UNCHANGED rvars
  /\ UNCHANGED fvars

\* Variant: ascending order (reverse=True forgotten).
RECURSIVE InsertByDateAscending(_, _)
InsertByDateAscending(l, x) ==
  IF l = <<>> THEN <<x>>
  ELSE IF x.sec_from_epoch < Head(l).sec_from_epoch THEN <<x>> \o l
  ELSE <<Head(l)>> \o InsertByDateAscending(Tail(l), x)

\* sorted(items, key=sec_from_epoch, reverse=True): stable, equal keys keep the
\* order of items.
RECURSIVE InsertByDate(_, _)
InsertByDate(l, x) ==
  IF l = <<>> THEN <<x>>
  ELSE IF x.sec_from_epoch > Head(l).sec_from_epoch THEN <<x>> \o l
  ELSE <<Head(l)>> \o InsertByDate(Tail(l), x)

\* Variant: the items are not sorted.
SortByDateNone(items) == items

RECURSIVE SortByDate(_)
SortByDate(items) ==
  IF items = <<>> THEN <<>>
  ELSE InsertByDate(SortByDate(SubSeq(items, 1, Len(items) - 1)), items[Len(items)])

\* Lines 616-623.  epkgs_info.items() lists a dictionary, in an order the
\* interpreter chooses.
SortEpkgs ==
  /\ pc = "epkg"
  /\ idx > Len(epkg_list)
  /\ \E items \in Perms(Range(epkgs_info)) :
       sorted_epkgs' = [i \in DOMAIN items |-> SortByDate(items)[i].path]
  /\ global_file_locks' = <<>>
  /\ removed_epkg' = <<>>
  /\ sidx' = 1
  /\ pc' = "interlock"
  /\ UNCHANGED <<epkg_list, lpps, efixes, idx, epkg, left, unread, locked_files, fidx,
                 epkgs_info, epkgs_reject, messages>>
  /\ UNCHANGED rvars
  /\ UNCHANGED fvars

InfoIndex(path) == CHOOSE i \in DOMAIN epkgs_info : epkgs_info[i].path = path
Info(path) == epkgs_info[InfoIndex(path)]

\* Variant: only the first file of the candidate is looked up.
IsDisjointFirstFile(files, locks) == files = <<>> \/ files[1] \notin Range(locks)

\* Line 625.
IsDisjoint(files, locks) == Range(files) \cap Range(locks) = {}

\* Variant: an interlocked candidate claims its files too.
InterlockClaimsAll ==
  /\ pc = "interlock"
  /\ sidx <= Len(sorted_epkgs)
  /\ LET path == sorted_epkgs[sidx]
     IN /\ global_file_locks' = global_file_locks \o Info(path).files
        /\ IF IsDisjoint(Info(path).files, global_file_locks)
             THEN UNCHANGED <<messages, epkgs_info, epkgs_reject, removed_epkg>>
             ELSE /\ messages' =
                       Append(messages,
                              <<"a previous efix to install will lock a file of ", basename(path)>>)
                  /\ epkgs_info' =
                       [epkgs_info EXCEPT ![InfoIndex(path)].reject = InterlockReason(path)]
                  /\ epkgs_reject' = Append(epkgs_reject, InterlockReason(path))
                  /\ removed_epkg' = Append(removed_epkg, path)
  /\ sidx' = sidx + 1
  /\ UNCHANGED <<epkg_list, lpps, efixes, pc, idx, epkg, left, unread, locked_files, fidx,
                 sorted_epkgs>>
  /\ UNCHANGED rvars
  /\ UNCHANGED fvars

\* Lines 624-638: one pass of 'for epkg in sorted_epkgs'.
Interlock ==
  /\ pc = "interlock"
  /\ sidx <= Len(sorted_epkgs)
  /\ LET path == sorted_epkgs[sidx]
     IN IF IsDisjoint(Info(path).files, global_file_locks)
          THEN /\ global_file_locks' = global_file_locks \o Info(path).files
               /\ UNCHANGED <<messages, epkgs_info, epkgs_reject, removed_epkg>>
          ELSE /\ messages' =
                    Append(messages,
                           <<"a previous efix to install will lock a file of ", basename(path)>>)
               /\ epkgs_info' =
                    [epkgs_info EXCEPT ![InfoIndex(path)].reject = InterlockReason(path)]
               /\ epkgs_reject' = Append(epkgs_reject, InterlockReason(path))
               /\ removed_epkg' = Append(removed_epkg, path)
               /\ UNCHANGED global_file_locks
  /\ sidx' = sidx + 1
  /\ UNCHANGED <<epkg_list, lpps, efixes, pc, idx, epkg, left, unread, locked_files, fidx,
                 sorted_epkgs>>
  /\ UNCHANGED rvars
  /\ UNCHANGED fvars

\* Lines 639-640.
Remove(l, removed) == SelectSeq(l, LAMBDA p : p \notin Range(removed))

\* Lines 639-644: the value returned is <<sorted_epkgs, epkgs_reject>>.
Return ==
  /\ pc = "interlock"
  /\ sidx > Len(sorted_epkgs)
  /\ sorted_epkgs' = Remove(sorted_epkgs, removed_epkg)
  /\ epkgs_reject' = sorted(epkgs_reject)
  /\ pc' = "done"
  /\ UNCHANGED <<epkg_list, lpps, efixes, idx, epkg, left, unread, locked_files, fidx,
                 epkgs_info, messages, global_file_locks, removed_epkg, sidx>>
  /\ UNCHANGED rvars
  /\ UNCHANGED fvars

\* to_utc_epoch, parse_lpps_info, download and parse_emgr are not running.
DIdle ==
  /\ dpc = "off"
  /\ date = NoDate
  /\ epoch = [sec |-> -1, msg |-> ""]

LIdle ==
  /\ lpc = "off"
  /\ lslpp = <<>>
  /\ lidx = 1
  /\ lpps_lvl = <<>>

WIdle ==
  /\ wpc = "off"
  /\ src = ""
  /\ dst_isfile = FALSE
  /\ dst_existed = FALSE
  /\ wget_exists = FALSE
  /\ resize_fs = FALSE
  /\ wrc = ""
  /\ calls = 0
  /\ res = TRUE

GIdle ==
  /\ gpc = "off"
  /\ emgr = <<>>
  /\ gidx = 1
  /\ label = ""
  /\ emgr_efixes = <<>>

FIdle == DIdle /\ LIdle /\ WIdle /\ GIdle

\* main is not running.
RIdle ==
  /\ rpc = "off"
  /\ clean = FALSE
  /\ check_only = FALSE
  /\ download_only = FALSE
  /\ exists = [t \in {"run_lslpp", "run_emgr"} |-> FALSE]
  /\ stale = [t \in {"run_lslpp", "run_emgr"} |-> FALSE]
  /\ thr = [t \in {"run_lslpp", "run_emgr"} |-> "none"]
  /\ trc = [t \in {"run_lslpp", "run_emgr"} |-> "-1"]
  /\ THRDS = <<>>
  /\ jidx = 1
  /\ results = [changed |-> FALSE, msg |-> "", meta |-> {}]
  /\ workdir_exists = FALSE
  /\ exit = ""
  /\ dst_files = {}
  /\ check = <<>>
  /\ iidx = 1
  /\ epkgs_base = <<>>
  /\ geninstall = <<>>

Init == EInit /\ RIdle /\ FIdle

Next ==
  \/ LockFiles
  \/ GetEfixInfo
  \/ \E line \in Lines : ParseLine(line)
  \/ AfterParse
  \/ CheckLockedFile
  \/ KeepEpkg
  \/ SortEpkgs
  \/ Interlock
  \/ Return

Spec == Init /\ [][Next]_vars

\* ------------------------------------- check_epkgs: one candidate, its levels
\* Version strings whose segments differ in the first place, in the second, and
\* in the number of digits: "6.2", "6.10", "7.2" and "7.10".
RangeLevelStrs == {<<a, ".", b>> : a \in {"6", "7"}, b \in {"2", "10"}}

\* lpps as parse_lpps_info builds it (lines 668-670), for these levels and for
\* a level of three segments, "7.2.0".
RangeLevelTables ==
  {[c \in {"bos.rte"} |-> [str |-> v, int |-> IntList(v)]] :
     v \in RangeLevelStrs \cup {<<"7", ".", "2", ".", "0">>}}

\* The prerequisite lines '<component> <min> <max>' on these levels.
RangeLines ==
  {Line("PREREQ", "bos.rte", lo, hi, NoDate) : lo \in RangeLevelStrs, hi \in RangeLevelStrs}

\* check_epkgs is called with one candidate.
EInitRange ==
  /\ epkg_list = <<Path(1)>>
  /\ lpps \in RangeLevelTables
  /\ efixes \in InstalledPatchTables
  /\ pc = "locked"
  /\ idx = 1
  /\ epkg = NewEpkg(<<>>)
  /\ left = 0
  /\ unread = <<>>
  /\ locked_files = {}
  /\ fidx = 1
  /\ epkgs_info = <<>>
  /\ epkgs_reject = <<>>
  /\ messages = <<>>
  /\ sorted_epkgs = <<>>
  /\ global_file_locks = <<>>
  /\ removed_epkg = <<>>
  /\ sidx = 1

InitRange == EInitRange /\ RIdle /\ FIdle

NextRange ==
  \/ LockFiles
  \/ GetEfixInfo
  \/ \E line \in Lines \cup RangeLines : ParseLine(line)
  \/ AfterParse
  \/ CheckLockedFile
  \/ KeepEpkg
  \/ SortEpkgs
  \/ Interlock
  \/ Return

SpecRange == InitRange /\ [][NextRange]_vars

\* ------------------------------------------------------ main and run_flrtvc
\* The functions decorated with start_threaded, lines 675 and 763; the listing
\* file of each is the one it is given at lines 823 and 829.
Threads == {"run_lslpp", "run_emgr"}

\* Return codes of the commands run.
ReturnCodes == {"0", "1", "2"}

\* check_epkgs is not running.
EIdle ==
  /\ epkg_list = <<>>
  /\ lpps = <<>>
  /\ efixes = <<>>
  /\ pc = "off"
  /\ idx = 1
  /\ epkg = NewEpkg(<<>>)
  /\ left = 0
  /\ unread = <<>>
  /\ locked_files = {}
  /\ fidx = 1
  /\ epkgs_info = <<>>
  /\ epkgs_reject = <<>>
  /\ sorted_epkgs = <<>>
  /\ global_file_locks = <<>>
  /\ removed_epkg = <<>>
  /\ sidx = 1

\* Lines 1147-1189 and 226-231: the results, the parameters, no thread.  The
\* working directory and the listing files may be there from an earlier run.
RInit ==
  /\ rpc = "workdir"
  /\ clean \in BOOLEAN
  /\ check_only \in BOOLEAN
  /\ download_only \in BOOLEAN
  /\ workdir_exists \in BOOLEAN
  /\ exists \in [Threads -> BOOLEAN]
  /\ \A t \in Threads : exists[t] => workdir_exists
  /\ stale = exists
  /\ thr = [t \in Threads |-> "none"]
  /\ trc = [t \in Threads |-> "-1"]
  /\ THRDS = <<>>
  /\ jidx = 1
  /\ results = [changed |-> FALSE, msg |-> "", meta |-> {}]
  /\ messages = <<>>
  /\ exit = ""
  /\ dst_files = {}
  /\ check = <<>>
  /\ iidx = 1
  /\ epkgs_base = <<>>
  /\ geninstall = <<>>

\* 'if clean and os.path.exists(workdir): shutil.rmtree(workdir)', lines
\* 1214, 1220, 1236, 1241, 1259, 1271 and 1275.
Rmtree ==
  IF clean /\ workdir_exists
    THEN /\ workdir_exists' = FALSE
         /\ exists' = [t \in Threads |-> FALSE]
    ELSE UNCHANGED <<workdir_exists, exists>>

\* module.fail_json(**results) and module.exit_json(**results) end the process.
EndWith(how, msg) ==
  /\ results' = [results EXCEPT !.msg = msg]
  /\ exit' = how
  /\ rpc' = "end"

\* Lines 1191-1194.
MakeWorkdir ==
  /\ rpc = "workdir"
  /\ workdir_exists' = TRUE
  /\ rpc' = "download"
  /\ UNCHANGED <<clean, check_only, download_only, stale, exists, thr, trc, THRDS, jidx, results,
                 exit, messages>>
  /\ UNCHANGED cvars
  /\ UNCHANGED fvars
  /\ UNCHANGED ivars

\* Lines 1211-1217.
DownloadFlrtvc ==
  /\ rpc = "download"
  /\ \E ok \in BOOLEAN :
       IF ok
         THEN /\ rpc' = "unzip"
              /\ UNCHANGED <<results, exit, workdir_exists, exists>>
         ELSE /\ Rmtree
              /\ EndWith("fail_json", "Failed to download FLRTVC-latest.zip")
  /\ UNCHANGED <<clean, check_only, download_only, stale, thr, trc, THRDS, jidx, messages>>
  /\ UNCHANGED cvars
  /\ UNCHANGED fvars
  /\ UNCHANGED ivars

\* Lines 1219-1223.
Unzip ==
  /\ rpc = "unzip"
  /\ \E ok \in BOOLEAN :
       IF ok
         THEN /\ rpc' = "report"
              /\ UNCHANGED <<results, exit, workdir_exists, exists>>
         ELSE /\ Rmtree
              /\ EndWith("fail_json", "Failed to unzip FLRTVC-latest.zip")
  /\ UNCHANGED <<clean, check_only, download_only, stale, thr, trc, THRDS, jidx, messages>>
  /\ UNCHANGED cvars
  /\ UNCHANGED fvars
  /\ UNCHANGED ivars

\* Lines 1233 and 814-817: run_flrtvc is entered.
BeginReport ==
  /\ rpc = "report"
  /\ results' = [results EXCEPT !.meta = @ \cup {"0.report"}]
  /\ rpc' = "run_lslpp"
  /\ UNCHANGED <<clean, check_only, download_only, stale, exists, thr, trc, THRDS, jidx,
                 workdir_exists, exit, messages>>
  /\ UNCHANGED cvars
  /\ UNCHANGED fvars
  /\ UNCHANGED ivars

\* Variant: the listing file is left as it is.
StartCollectionKeepsListing(t) ==
  /\ rpc = t
  /\ exists' = exists
  /\ thr' = [thr EXCEPT ![t] = "started"]
  /\ THRDS' = Append(THRDS, t)
  /\ rpc' = IF t = "run_lslpp" THEN "run_emgr" ELSE "wait_all"
  /\ UNCHANGED <<clean, check_only, download_only, stale, trc, jidx, results, workdir_exists,
                 exit, messages>>
  /\ UNCHANGED cvars
  /\ UNCHANGED fvars
  /\ UNCHANGED ivars

\* Lines 819-823 and 825-829 with 245-250: the listing file is removed, the
\* thread is started, then appended to THRDS.
StartCollection(t) ==
  /\ rpc = t
  /\ exists' = [exists EXCEPT ![t] = FALSE]
  /\ thr' = [thr EXCEPT ![t] = "started"]
  /\ THRDS' = Append(THRDS, t)
  /\ rpc' = IF t = "run_lslpp" THEN "run_emgr" ELSE "wait_all"
  /\ UNCHANGED <<clean, check_only, download_only, stale, trc, jidx, results, workdir_exists,
                 exit, messages>>
  /\ UNCHANGED cvars
  /\ UNCHANGED fvars
  /\ UNCHANGED ivars

\* Lines 686-688 and 778-781, in the thread: the command is run.
RunCommand(t) ==
  /\ thr[t] = "started"
  /\ \E rc \in ReturnCodes : trc' = [trc EXCEPT ![t] = rc]
  /\ thr' = [thr EXCEPT ![t] = "ran"]
  /\ UNCHANGED <<rpc, clean, check_only, download_only, stale, exists, THRDS, jidx, results,
                 workdir_exists, exit, messages>>
  /\ UNCHANGED cvars
  /\ UNCHANGED fvars
  /\ UNCHANGED ivars

\* Lines 690-700 and 782-792, in the thread: the listing is written when the
\* command succeeded, and the thread ends.
WriteListing(t) ==
  /\ thr[t] = "ran"
  /\ exists' = [exists EXCEPT ![t] = @ \/ trc[t] = "0"]
  /\ thr' = [thr EXCEPT ![t] = "terminated"]
  /\ UNCHANGED <<rpc, clean, check_only, download_only, stale, trc, THRDS, jidx, results,
                 workdir_exists, exit, messages>>
  /\ UNCHANGED cvars
  /\ UNCHANGED fvars
  /\ UNCHANGED ivars

\* Variant: join returns at once.
JoinedAtOnce(t) == TRUE

\* Line 268: thd.join() returns when the thread has terminated.
Joined(t) == thr[t] = "terminated"

\* Lines 832, 1090-1095 and 266-268: wait_all, one thread of THRDS at a time.
WaitAll ==
  /\ rpc = "wait_all"
  /\ IF jidx <= Len(THRDS)
       THEN /\ Joined(THRDS[jidx])
            /\ jidx' = jidx + 1
            /\ rpc' = rpc
       ELSE /\ rpc' = "listings"
            /\ jidx' = jidx
  /\ UNCHANGED <<clean, check_only, download_only, stale, exists, thr, trc, THRDS, results,
                 workdir_exists, exit, messages>>
  /\ UNCHANGED cvars
  /\ UNCHANGED fvars
  /\ UNCHANGED ivars

\* Lines 834-841.  results['meta'] has the keys 'messages' (line 1150) and
\* '0.report' (line 817): the append to results['meta']['message'] raises
\* KeyError, that nothing catches.
CheckListings ==
  /\ rpc = "listings"
  /\ IF \E t \in Threads : ~exists[t]
       THEN IF "message" \in results.meta \cup {"messages"}
              THEN /\ rpc' = "report_failed"
                   /\ exit' = exit
              ELSE /\ rpc' = "end"
                   /\ exit' = "exception"
       ELSE /\ rpc' = "flrtvc"
            /\ exit' = exit
  /\ UNCHANGED <<clean, check_only, download_only, stale, exists, thr, trc, THRDS, jidx, results,
                 workdir_exists, messages>>
  /\ UNCHANGED cvars
  /\ UNCHANGED fvars
  /\ UNCHANGED ivars

\* Lines 843-886: the report in compact mode, then saved to a file.
RunReport ==
  /\ rpc = "flrtvc"
  /\ \E rc \in ReturnCodes :
       IF rc # "0" /\ rc # "2"
         THEN /\ messages' =
                   Append(messages, <<"Failed to get flrtvc report, rc=", rc, " stderr: ">>)
              /\ rpc' = "report_failed"
         ELSE /\ \E rc2 \in ReturnCodes :
                   messages' =
                     IF rc2 # "0" /\ rc2 # "2"
                       THEN Append(messages,
                                   <<"Failed to save flrtvc report in file, rc=", rc2>>)
                       ELSE messages
              /\ rpc' = "check_only"
  /\ UNCHANGED <<clean, check_only, download_only, stale, exists, thr, trc, THRDS, jidx, results,
                 workdir_exists, exit>>
  /\ UNCHANGED cvars
  /\ UNCHANGED fvars
  /\ UNCHANGED ivars

\* Lines 1233-1238: run_flrtvc returned False.
ReportFailed ==
  /\ rpc = "report_failed"
  /\ Rmtree
  /\ EndWith("fail_json", "Failed to get vulnerabilities report, system will not be updated")
  /\ UNCHANGED <<clean, check_only, download_only, stale, thr, trc, THRDS, jidx, messages>>
  /\ UNCHANGED cvars
  /\ UNCHANGED fvars
  /\ UNCHANGED ivars

\* Variant: check_only is not looked at.
CheckOnlyIgnored ==
  /\ rpc = "check_only"
  /\ rpc' = "run_parser"
  /\ UNCHANGED <<results, exit, workdir_exists, exists>>
  /\ UNCHANGED <<clean, check_only, download_only, stale, thr, trc, THRDS, jidx, messages>>
  /\ UNCHANGED cvars
  /\ UNCHANGED fvars
  /\ UNCHANGED ivars

\* Lines 1240-1244.
CheckOnly ==
  /\ rpc = "check_only"
  /\ IF check_only
       THEN /\ Rmtree
            /\ EndWith("exit_json", "exit on check only")
       ELSE /\ rpc' = "run_parser"
            /\ UNCHANGED <<results, exit, workdir_exists, exists>>
  /\ UNCHANGED <<clean, check_only, download_only, stale, thr, trc, THRDS, jidx, messages>>
  /\ UNCHANGED cvars
  /\ UNCHANGED fvars
  /\ UNCHANGED ivars

\* Lines 1250 and 889-908.
RunParser ==
  /\ rpc = "run_parser"
  /\ results' = [results EXCEPT !.meta = @ \cup {"1.parse"}]
  /\ rpc' = "run_downloader"
  /\ UNCHANGED <<clean, check_only, download_only, stale, exists, thr, trc, THRDS, jidx,
                 workdir_exists, exit, messages>>
  /\ UNCHANGED cvars
  /\ UNCHANGED fvars
  /\ UNCHANGED ivars

\* The lists of distinct candidates that check_epkgs may return as accepted.
AcceptLists ==
  {l \in SeqsUpTo({Path(n) : n \in 1..MaxEpkgs}, MaxEpkgs) :
     \A i, j \in DOMAIN l : i # j => l[i] # l[j]}

\* Lines 1256 and 911-1013: the downloads and the resolution of the candidates,
\* as one step.  The candidates are downloaded to dst_path (lines 942, 948, 960
\* and 998), of which the working directory is the subdirectory 'work' (line
\* 1192); the accepted ones are some of them, in the order check_epkgs returns.
RunDownloader ==
  /\ rpc = "run_downloader"
  /\ results' = [results EXCEPT
                   !.meta = @ \cup {"2.discover", "3.download", "4.1.reject", "4.2.check"}]
  /\ \E accept \in AcceptLists, download \in SUBSET {Path(n) : n \in 1..MaxEpkgs} :
       /\ Range(accept) \subseteq download
       /\ \A n \in 1..MaxEpkgs : Path(n) \in download => \A k \in 1..n : Path(k) \in download
       /\ dst_files' = dst_files \cup download
       /\ check' = accept
  /\ rpc' = "download_only"
  /\ UNCHANGED <<clean, check_only, download_only, stale, exists, thr, trc, THRDS, jidx,
                 workdir_exists, exit, messages, iidx, epkgs_base, geninstall>>
  /\ UNCHANGED cvars
  /\ UNCHANGED fvars

\* Variant: download_only is not looked at.
DownloadOnlyIgnored ==
  /\ rpc = "download_only"
  /\ rpc' = "run_installer"
  /\ UNCHANGED <<results, exit, workdir_exists, exists>>
  /\ UNCHANGED <<clean, check_only, download_only, stale, thr, trc, THRDS, jidx, messages>>
  /\ UNCHANGED cvars
  /\ UNCHANGED fvars
  /\ UNCHANGED ivars

\* Lines 1258-1262.
DownloadOnly ==
  /\ rpc = "download_only"
  /\ IF download_only
       THEN /\ Rmtree
            /\ EndWith("exit_json", "exit on download only")
       ELSE /\ rpc' = "run_installer"
            /\ UNCHANGED <<results, exit, workdir_exists, exists>>
  /\ UNCHANGED <<clean, check_only, download_only, stale, thr, trc, THRDS, jidx, messages>>
  /\ UNCHANGED cvars
  /\ UNCHANGED fvars
  /\ UNCHANGED ivars

\* Lines 1268 and 1032-1041, and lines 1275-1280 when there is nothing to
\* install (run_installer returns True at once).
RunInstaller ==
  /\ rpc = "run_installer"
  /\ IF check = <<>>
       THEN /\ Rmtree
            /\ EndWith("exit_json", "FLRTVC completed successfully")
            /\ UNCHANGED <<iidx, epkgs_base>>
       ELSE /\ rpc' = "copy"
            /\ iidx' = 1
            /\ epkgs_base' = <<>>
            /\ UNCHANGED <<results, exit, workdir_exists, exists>>
  /\ UNCHANGED <<clean, check_only, download_only, stale, thr, trc, THRDS, jidx, messages,
                 dst_files, check, geninstall>>
  /\ UNCHANGED cvars
  /\ UNCHANGED fvars

\* Variant: the name is put in front of the names copied so far.
CopiedFirst(base, path) == <<basename(path)>> \o base

\* Line 1059: epkgs_base.append(os.path.basename(epkg)).
Copied(base, path) == Append(base, basename(path))

\* Lines 1043-1059: one candidate is copied to the lpp source directory, which
\* is under dst_path; ok is whether the copy, retried once after a file
\* system increase, succeeded.
CopyEpkg ==
  /\ rpc = "copy"
  /\ iidx <= Len(check)
  /\ \E ok \in BOOLEAN :
       IF ok
         THEN /\ epkgs_base' = Copied(epkgs_base, check[iidx])
              /\ dst_files' = dst_files \cup {<<"flrtvc_lpp_source/emgr/ppc/">> \o check[iidx]}
              /\ messages' = messages
         ELSE /\ messages' = Append(messages, <<"Cannot copy file ">> \o check[iidx])
              /\ UNCHANGED <<epkgs_base, dst_files>>
  /\ iidx' = iidx + 1
  /\ UNCHANGED <<rpc, clean, check_only, download_only, stale, exists, thr, trc, THRDS, jidx,
                 results, workdir_exists, exit, check, geninstall>>
  /\ UNCHANGED cvars
  /\ UNCHANGED fvars

\* Lines 1061-1087 and 1268-1280: nothing was copied, or geninstall is run on
\* ' '.join(epkgs_base) and returns rc; then main ends.
Geninstall ==
  /\ rpc = "copy"
  /\ iidx > Len(check)
  /\ Rmtree
  /\ IF epkgs_base = <<>>
       THEN /\ EndWith("fail_json", "Failed to install fixes, please check meta and log data.")
            /\ UNCHANGED <<messages, geninstall>>
       ELSE \E rc \in ReturnCodes :
              /\ geninstall' = epkgs_base
              /\ results' =
                   [changed |-> TRUE,
                    msg |-> IF rc = "0" THEN "FLRTVC completed successfully"
                            ELSE "Failed to install fixes, please check meta and log data.",
                    meta |-> results.meta \cup {"5.install"}]
              /\ messages' =
                   IF rc = "0" THEN messages
                   ELSE Append(messages, <<"Cannot perform customization, rc=", rc>>)
              /\ exit' = IF rc = "0" THEN "exit_json" ELSE "fail_json"
              /\ rpc' = "end"
  /\ UNCHANGED <<clean, check_only, download_only, stale, thr, trc, THRDS, jidx, dst_files, check,
                 iidx, epkgs_base>>
  /\ UNCHANGED cvars
  /\ UNCHANGED fvars

RNext ==
  \/ MakeWorkdir
  \/ DownloadFlrtvc
  \/ Unzip
  \/ BeginReport
  \/ \E t \in Threads : StartCollection(t)
  \/ \E t \in Threads : RunCommand(t)
  \/ \E t \in Threads : WriteListing(t)
  \/ WaitAll
  \/ CheckListings
  \/ RunReport
  \/ ReportFailed
  \/ CheckOnly
  \/ RunParser
  \/ RunDownloader
  \/ DownloadOnly
  \/ RunInstaller
  \/ CopyEpkg
  \/ Geninstall

InitRun == RInit /\ EIdle /\ FIdle

SpecRun == InitRun /\ [][RNext]_vars

\* ------------------------------------------------- to_utc_epoch: one call
\* Packaging dates 'Www Mmm D HH:MM:SS [TZ] YYYY': with a time zone of the
\* table, with one that is not in it, and without time zone.
Dates ==
  {[fmt |-> f, year |-> y, month |-> m, day |-> d, hour |-> h, minute |-> 35,
    second |-> 9, tz |-> z] :
     f \in {"tz"}, y \in {2016, 2017, 2024}, m \in {2, 10, 12}, d \in {9, 29, 31},
     h \in {0, 23}, z \in {"CDT", "IST", "JST", "UTC", "ACST"}}
  \cup
  {[fmt |-> "notz", year |-> y, month |-> m, day |-> d, hour |-> h, minute |-> 35,
    second |-> 9, tz |-> ""] :
     y \in {2016, 2017, 2024}, m \in {2, 10, 12}, d \in {9, 29, 31}, h \in {0, 23}}
  \cup {NoDate}

DInit ==
  /\ dpc = "call"
  /\ date \in Dates
  /\ epoch = [sec |-> -1, msg |-> ""]

\* Lines 410-461.
ToUtcEpoch ==
  /\ dpc = "call"
  /\ epoch' = to_utc_epoch(date)
  /\ dpc' = "return"
  /\ UNCHANGED <<date, messages>>
  /\ UNCHANGED <<cvars, rvars, lvars, wvars, gvars>>

InitDate == DInit /\ EIdle /\ RIdle /\ LIdle /\ WIdle /\ GIdle /\ messages = <<>>

NextDate == ToUtcEpoch

SpecDate == InitDate /\ [][NextDate]_vars

\* --------------------------------------------------------- parse_lpps_info
\* A line of lslpp.txt after myline.split(':'): the number of fields, the
\* fileset (field 1) and its level (field 2).
LslppLine(n, name, level) == [nfields |-> n, name |-> name, level |-> level]

LslppLines ==
  { LslppLine(8, "bos.rte", <<"7", ".", "1">>),
    LslppLine(8, "bos.net", <<"7", ".", "2", "-", "1">>),
    LslppLine(8, "bos.adt", <<"7", ".", "x">>),
    LslppLine(8, "bos.mp64", <<"7", ".", "1", ".", "5">>),
    LslppLine(2, "", <<>>) }

\* re.sub(r'-', '.', s)
sub(s) == [i \in DOMAIN s |-> IF s[i] = "-" THEN "." ELSE s[i]]

\* int(s) raises ValueError for a segment of the level.
ValueError(level) == \E t \in Range(split(sub(level))) : t \notin Range(Numerals)

\* d[key] = value on a dictionary.
SetItem(dict, key, value) ==
  [k \in DOMAIN dict \cup {key} |-> IF k = key THEN value ELSE dict[k]]

LInit ==
  /\ lpc = "loop"
  /\ lslpp \in SeqsUpTo(LslppLines, MaxListing)
  /\ lidx = 1
  /\ lpps_lvl = <<>>
  /\ messages = <<>>

\* Lines 660-670: one line of the file.  The ValueError that int raises at line
\* 670 is not caught, neither here nor by the callers.
ParseLppsLine ==
  /\ lpc = "loop"
  /\ lidx <= Len(lslpp)
  /\ LET mylist == lslpp[lidx]
     IN IF mylist.nfields < 3
          THEN /\ messages' = Append(messages, <<"file ", "lslpp.txt", " is malformed">>)
               /\ lidx' = lidx + 1
               /\ UNCHANGED <<lpps_lvl, lpc>>
        ELSE IF ValueError(mylist.level)
          THEN /\ lpps_lvl' = SetItem(lpps_lvl, mylist.name, [str |-> mylist.level])
               /\ lpc' = "raise"
               /\ UNCHANGED <<messages, lidx>>
          ELSE /\ lpps_lvl' =
                    SetItem(lpps_lvl, mylist.name,
                            [str |-> mylist.level, int |-> IntList(sub(mylist.level))])
               /\ lidx' = lidx + 1
               /\ UNCHANGED <<messages, lpc>>
  /\ UNCHANGED lslpp
  /\ UNCHANGED <<cvars, rvars, dvars, wvars, gvars>>

\* Line 672.
ReturnLpps ==
  /\ lpc = "loop"
  /\ lidx > Len(lslpp)
  /\ lpc' = "return"
  /\ UNCHANGED <<lslpp, lidx, lpps_lvl, messages>>
  /\ UNCHANGED <<cvars, rvars, dvars, wvars, gvars>>

InitLpps == LInit /\ EIdle /\ RIdle /\ DIdle /\ WIdle /\ GIdle

NextLpps == ParseLppsLine \/ ReturnLpps

SpecLpps == InitLpps /\ [][NextLpps]_vars

\* ---------------------------------------------------------------- download
\* The exit codes of wget: 0 is success, 3 a file I/O error (no space left).
WgetCodes == {"0", "1", "2", "3", "4", "5", "6", "7", "8"}

\* The URLs given to download at lines 1212, 943 and 951.
Srcs ==
  {"https://www-304.ibm.com/webapp/set2/sas/f/flrt3/FLRTVC-latest.zip",
   "https://aix.software.ibm.com/aix/ifixes/ij1/a.epkg.Z",
   "https://aix.software.ibm.com/aix/efixes/security/fix.tar"}

WInit ==
  /\ wpc = "call"
  /\ src \in Srcs
  /\ dst_isfile \in BOOLEAN
  /\ dst_existed = dst_isfile
  /\ wget_exists \in BOOLEAN
  /\ resize_fs \in BOOLEAN
  /\ wrc = ""
  /\ calls = 0
  /\ res = TRUE
  /\ messages = <<>>

\* Lines 300-304 and 318-325: download is entered.
DownloadCall ==
  /\ wpc = "call"
  /\ IF dst_isfile
       THEN /\ res' = TRUE
            /\ wpc' = "return"
            /\ messages' = messages
     ELSE IF wget_exists
       THEN /\ wpc' = "wget"
            /\ UNCHANGED <<res, messages>>
       ELSE /\ messages' =
                 Append(messages, <<"Cannot locate ", "/bin/wget", ", please install related package.">>)
            /\ res' = FALSE
            /\ wpc' = "return"
  /\ UNCHANGED <<src, dst_isfile, dst_existed, wget_exists, resize_fs, wrc, calls>>
  /\ UNCHANGED <<cvars, rvars, dvars, lvars, gvars>>

\* Lines 305-307, 311-317 and 325: wget is run.  When it fails it may leave
\* a part of the file behind.
RunWget ==
  /\ wpc = "wget"
  /\ \E rc \in WgetCodes, partial \in BOOLEAN :
       /\ wrc' = rc
       /\ dst_isfile' = (rc = "0" \/ partial)
       /\ IF rc = "3"
            THEN /\ wpc' = "rc3"
                 /\ UNCHANGED <<res, messages>>
          ELSE IF rc # "0"
            THEN /\ messages' = Append(messages, <<"Cannot download ", src>>)
                 /\ res' = FALSE
                 /\ wpc' = "return"
            ELSE /\ wpc' = "return"
                 /\ UNCHANGED <<res, messages>>
  /\ UNCHANGED <<src, dst_existed, wget_exists, resize_fs, calls>>
  /\ UNCHANGED <<cvars, rvars, dvars, lvars, gvars>>

\* Lines 307-310 and 325: wget returned 3.  When the file system is increased,
\* dst is removed (os.remove raises OSError when it is not there) and download
\* calls itself; otherwise no branch sets res and download returns it as it is.
OutOfSpace ==
  /\ wpc = "rc3"
  /\ \E increased \in BOOLEAN :
       /\ increased => calls < MaxRetries
       /\ IF resize_fs /\ increased
            THEN IF dst_isfile
                   THEN /\ dst_isfile' = FALSE
                        /\ calls' = calls + 1
                        /\ wpc' = "call"
                   ELSE /\ wpc' = "raise"
                        /\ UNCHANGED <<dst_isfile, calls>>
            ELSE /\ wpc' = "return"
                 /\ UNCHANGED <<dst_isfile, calls>>
  /\ UNCHANGED <<src, dst_existed, wget_exists, resize_fs, wrc, res, messages>>
  /\ UNCHANGED <<cvars, rvars, dvars, lvars, gvars>>

InitDownload == WInit /\ EIdle /\ RIdle /\ DIdle /\ LIdle /\ GIdle

NextDownload == DownloadCall \/ RunWget \/ OutOfSpace

SpecDownload == InitDownload /\ [][NextDownload]_vars

\* -------------------------------------------------------------- parse_emgr
\* A line of emgr.txt, by the pattern it matches: a line that is skipped
\* (empty, or beginning with '+' or '='), 'EFIX ID: n', 'EFIX LABEL: label',
\* '   LOCATION: file', '   PACKAGE: fileset', or any other line.
EmgrLine(kind, arg) == [kind |-> kind, arg |-> arg]

EmgrLines ==
  { EmgrLine("skip", ""), EmgrLine("EFIX ID", "1"),
    EmgrLine("EFIX LABEL", "IJ1"), EmgrLine("EFIX LABEL", "IJ2"),
    EmgrLine("LOCATION", "/usr/f1"), EmgrLine("LOCATION", "/usr/f2"),
    EmgrLine("PACKAGE", "bos.rte"), EmgrLine("other", "STATE: S") }

GInit ==
  /\ gpc = "loop"
  /\ emgr \in SeqsUpTo(EmgrLines, MaxEmgrLines)
  /\ gidx = 1
  /\ label = ""
  /\ emgr_efixes = <<>>

\* Variant: 'EFIX ID' does not close the current label.
NextLabelKept(current, line) ==
  IF current = "" /\ line.kind = "EFIX LABEL" THEN line.arg ELSE current

\* Lines 728-739: the label after the line.
NextLabel(current, line) ==
  IF line.kind = "EFIX ID" THEN ""
  ELSE IF current = "" /\ line.kind = "EFIX LABEL" THEN line.arg
  ELSE current

\* Lines 722-758: one line of the file.  The variables file and package are
\* written and never read, and are left out.
ParseEmgrLine ==
  /\ gpc = "loop"
  /\ gidx <= Len(emgr)
  /\ LET line == emgr[gidx]
     IN /\ label' = IF line.kind = "skip" THEN label ELSE NextLabel(label, line)
        /\ emgr_efixes' =
             IF line.kind \in {"skip", "EFIX ID"} THEN emgr_efixes
             ELSE IF label = ""
               THEN IF line.kind = "EFIX LABEL"
                      THEN SetItem(emgr_efixes, line.arg, [files |-> {}, packages |-> {}])
                      ELSE emgr_efixes
             ELSE IF line.kind = "LOCATION"
               THEN [emgr_efixes EXCEPT ![label].files = @ \cup {line.arg}]
             ELSE IF line.kind = "PACKAGE"
               THEN [emgr_efixes EXCEPT ![label].packages = @ \cup {line.arg}]
             ELSE emgr_efixes
  /\ gidx' = gidx + 1
  /\ UNCHANGED <<gpc, emgr, messages>>
  /\ UNCHANGED <<cvars, rvars, dvars, lvars, wvars>>

\* Line 760.
ReturnEmgr ==
  /\ gpc = "loop"
  /\ gidx > Len(emgr)
  /\ gpc' = "return"
  /\ UNCHANGED <<emgr, gidx, label, emgr_efixes, messages>>
  /\ UNCHANGED <<cvars, rvars, dvars, lvars, wvars>>

InitEmgr == GInit /\ EIdle /\ RIdle /\ DIdle /\ LIdle /\ WIdle /\ messages = <<>>

NextEmgr == ParseEmgrLine \/ ReturnEmgr

SpecEmgr == InitEmgr /\ [][NextEmgr]_vars

\* ------------------------------------------------- check_epkgs: properties
Accepted == Range(sorted_epkgs)
Rejected == Range(epkgs_reject)
Overlap(a, b) == Range(a.files) \cap Range(b.files) # {}
IsMissingReason(r) == Len(r) >= 3 /\ r[2] = ": prerequisite " /\ r[3] = "missing: "
IsMismatchReason(r) ==
  Len(r) >= 4 /\ r[2] = ": prerequisite " /\ r[4] = " levels do not match: "

\* The installed efix that owns a file: the first one of the table that lists it.
Owned(f) == \E i \in DOMAIN efixes : f \in efixes[i].files
FirstOwner(f) ==
  efixes[CHOOSE i \in DOMAIN efixes :
           f \in efixes[i].files /\ \A j \in 1..(i - 1) : f \notin efixes[j].files].label

\* An unread prerequisite line names a component that is not installed / whose
\* installed ordinal is outside the line's range.
NamesMissing(line) == line.name \notin DOMAIN lpps
OutOfRange(line) ==
  /\ line.name \in DOMAIN lpps
  /\ \/ ListLess(lpps[line.name].int, IntList(line.minlvl))
     \/ ListLess(IntList(line.maxlvl), lpps[line.name].int)

\* C1: check_epkgs returns a partition of the candidates: every candidate is in
\* accept once or accounts for exactly one entry of reject, and
\* len(accept) + len(reject) is the number of candidates.
C1_Partition ==
  pc = "done" =>
    /\ \A i \in DOMAIN epkg_list :
         Cardinality({j \in DOMAIN sorted_epkgs : sorted_epkgs[j] = epkg_list[i]})
           + Cardinality({j \in DOMAIN epkgs_reject :
                            epkgs_reject[j][1] = basename(epkg_list[i])}) = 1
    /\ Len(sorted_epkgs) + Len(epkgs_reject) = Len(epkg_list)

\* C2: no two candidates of the returned accept list share a file.
C2_AcceptedFilesDisjoint ==
  pc = "done" =>
    \A i, j \in DOMAIN sorted_epkgs :
      i # j => ~Overlap(Info(sorted_epkgs[i]), Info(sorted_epkgs[j]))

C2_Witness ==
  /\ pc = "done"
  /\ Len(sorted_epkgs) >= 2
  /\ \A i \in DOMAIN sorted_epkgs : Info(sorted_epkgs[i]).files # <<>>
  /\ removed_epkg # <<>>

\* Two kept candidates (neither rejected for a prerequisite nor for an installed
\* efix) of which a has the strictly later packaging time, with a common file.
LaterAndOverlapping(a, b) ==
  /\ b.sec_from_epoch # -1
  /\ a.sec_from_epoch > b.sec_from_epoch
  /\ Overlap(a, b)

\* C3 as stated: of two such candidates the later one is accepted and the
\* earlier one is rejected as locked by a previous efix to install.
C3_Original ==
  pc = "done" =>
    \A i, j \in DOMAIN epkgs_info :
      LaterAndOverlapping(epkgs_info[i], epkgs_info[j]) =>
        /\ epkgs_info[i].path \in Accepted
        /\ epkgs_info[j].path \notin Accepted
        /\ InterlockReason(epkgs_info[j].path) \in Rejected

\* C3 as amended: the later candidate is accepted unless it has a file in common
\* with an accepted candidate packaged at the same time or later; and when the
\* later one is accepted, the earlier one is rejected as locked by a previous
\* efix to install.
C3_LaterWins ==
  pc = "done" =>
    \A i, j \in DOMAIN epkgs_info :
      LaterAndOverlapping(epkgs_info[i], epkgs_info[j]) =>
        /\ epkgs_info[i].path \notin Accepted =>
             \E k \in DOMAIN epkgs_info :
               /\ k # i
               /\ epkgs_info[k].path \in Accepted
               /\ epkgs_info[k].sec_from_epoch >= epkgs_info[i].sec_from_epoch
               /\ Overlap(epkgs_info[k], epkgs_info[i])
        /\ epkgs_info[i].path \in Accepted =>
             /\ epkgs_info[j].path \notin Accepted
             /\ InterlockReason(epkgs_info[j].path) \in Rejected

C3_Witness ==
  /\ pc = "done"
  /\ \E i, j \in DOMAIN epkgs_info :
       /\ i < j
       /\ LaterAndOverlapping(epkgs_info[j], epkgs_info[i])
       /\ epkgs_info[j].path \in Accepted
       /\ InterlockReason(epkgs_info[i].path) \in Rejected

C5_Original ==
  (pc = "break" /\ \E k \in DOMAIN unread : NamesMissing(unread[k]))
    => IsMissingReason(epkg.reject)

\* C5 as amended: reading a prerequisite line on a component that is not installed
\* stops the parsing with the reason 'prerequisite missing: <component>'; a
\* candidate whose parsing stopped is rejected for the line it stopped at
\* (missing, or out of range for an earlier line), is not kept, and its reason
\* stays in the reject list.
C5_MissingPrereqRejects ==
     [][/\ \A line \in PrereqLines :
             (pc = "parse" /\ NamesMissing(line) /\ ParseLine(line)) =>
               /\ pc' = "break"
               /\ epkg'.reject = MissingReason(epkg.path, line.name)
        /\ pc = "break" =>
             /\ epkgs_reject' = Append(epkgs_reject, epkg.reject)
             /\ epkgs_info' = epkgs_info
        /\ pc' = "break" => IsMissingReason(epkg'.reject) \/ IsMismatchReason(epkg'.reject)
        /\ Rejected \subseteq Range(epkgs_reject')]_vars

C5_Witness ==
  /\ pc = "done"
  /\ \E r \in Rejected : IsMissingReason(r) /\ r[1] = "b.epkg.Z"
  /\ Accepted = {Path(1)}

\* C6 as stated: a candidate whose output declares a range that the installed
\* ordinal of the component is outside of is rejected with a 'levels do not
\* match' reason, wherever the line stands in the output.
C6_Original ==
  (pc = "break" /\ \E k \in DOMAIN unread : OutOfRange(unread[k]))
    => IsMismatchReason(epkg.reject)

\* C6 as amended: reading a prerequisite line whose range the installed ordinal
\* is outside of stops the parsing with the reason '<component> levels do not
\* match: <min> < <installed> < <max>'; a candidate whose parsing stopped is
\* rejected for the line it stopped at, is not kept, and its reason stays in the
\* reject list.
C6_LevelMismatchRejects ==
     [][/\ \A line \in PrereqLines :
             (pc = "parse" /\ OutOfRange(line) /\ ParseLine(line)) =>
               /\ pc' = "break"
               /\ epkg'.reject =
                    MismatchReason(epkg.path, line.name, line.minlvl,
                                   lpps[line.name].str, line.maxlvl)
        /\ pc = "break" =>
             /\ epkg.reject # <<>>
             /\ epkgs_reject' = Append(epkgs_reject, epkg.reject)
             /\ epkgs_info' = epkgs_info
        /\ Rejected \subseteq Range(epkgs_reject')]_vars

C6_Witness ==
  /\ pc = "done"
  /\ \E r \in Rejected : IsMismatchReason(r) /\ r[1] = "a.epkg.Z"
  /\ Accepted = {Path(2)}

\* The candidate being examined has been through the parsing and, if it got
\* that far, through the loop over its files.
Examined == pc = "break" \/ (pc = "files" /\ fidx > Len(epkg.files))

\* C7 as stated: a candidate that lists a file owned by an installed efix is
\* rejected with a reason naming the first owner and the file.
C7_Original ==
  Examined =>
    \A f \in Range(epkg.files) :
      Owned(f) =>
        LockedReason(epkg.path, FirstOwner(f), f) \in Rejected \cup {epkg.reject}

\* C7 as amended: a candidate that no prerequisite line rejected and that lists
\* a file owned by an installed efix is rejected, with a reason naming the first
\* owner and the file, and is not kept.
C7_InstalledLockRejects ==
  /\ (pc = "files" /\ fidx > Len(epkg.files)) =>
       \A f \in Range(epkg.files) :
         Owned(f) =>
           /\ epkg.reject # <<>>
           /\ LockedReason(epkg.path, FirstOwner(f), f) \in Rejected
  /\ \A i \in DOMAIN epkgs_info : \A f \in Range(epkgs_info[i].files) : ~Owned(f)
  /\ pc = "done" => \A r \in Rejected : r[2] = ": installed efix " => r[1] \notin
                                          {basename(p) : p \in Accepted}

C7_Witness ==
  /\ pc = "files"
  /\ fidx > Len(epkg.files)
  /\ \E f \in Range(epkg.files) :
       /\ Cardinality({i \in DOMAIN efixes : f \in efixes[i].files}) = 2
       /\ FirstOwner(f) = "IJ2"
       /\ epkg.reject = LockedReason(epkg.path, "IJ2", f)

\* a < b for two vectors of the same length: they differ, and at the first
\* place from the left where they do a has the smaller number.
VecLess(a, b) ==
  \E i \in DOMAIN a : a[i] < b[i] /\ \A j \in 1..(i - 1) : a[j] = b[j]

VecLeq(a, b) == a = b \/ VecLess(a, b)

\* The installed ordinal and the two bounds of the line have the same length.
EqualLength(line) ==
  /\ line.name \in DOMAIN lpps
  /\ Len(IntList(line.minlvl)) = Len(lpps[line.name].int)
  /\ Len(IntList(line.maxlvl)) = Len(lpps[line.name].int)

InRange(line) ==
  /\ VecLeq(IntList(line.minlvl), lpps[line.name].int)
  /\ VecLeq(lpps[line.name].int, IntList(line.maxlvl))

\* C21: for a prerequisite line on an installed component whose ordinal has the
\* length of the bounds, the candidate is not rejected by the line when
\* min <= installed <= max as vectors of integers compared from the left (so not
\* when installed = min or installed = max), and is rejected with 'levels do not
\* match', the parsing stopping there, exactly when installed < min or
\* installed > max; and a 'levels do not match' reason in the reject list names
\* bounds that the installed ordinal is outside of.
C21_InclusiveRange ==
  /\ [](\A r \in Rejected \cup {epkg.reject} :
          (IsMismatchReason(r) /\ Len(r) = 12 /\ Len(lpps[r[3]].int) = 2) =>
            \/ VecLess(lpps[r[3]].int, IntList(SubSeq(r, 5, 7)))
            \/ VecLess(IntList(SubSeq(r, 10, 12)), lpps[r[3]].int))
  /\ [][\A line \in RangeLines :
          (pc = "parse" /\ EqualLength(line) /\ ParseLine(line)) =>
            IF InRange(line)
              THEN epkg'.reject = <<>> /\ pc' = "parse"
              ELSE /\ epkg'.reject =
                        MismatchReason(epkg.path, line.name, line.minlvl,
                                       lpps[line.name].str, line.maxlvl)
                   /\ pc' = "break"]_vars

\* The candidate is rejected because the installed 6.2 is below the minimum
\* 6.10, and was not rejected by the lines read before that one.
C21_Witness ==
  /\ pc = "done"
  /\ lpps["bos.rte"].str = <<"6", ".", "2">>
  /\ epkgs_reject =
       <<MismatchReason(Path(1), "bos.rte", <<"6", ".", "10">>, <<"6", ".", "2">>,
                        <<"7", ".", "2">>)>>

\* The files of the candidates that the interlock pass has gone through and kept.
FilesOfKept ==
  UNION {Range(Info(sorted_epkgs[i]).files) :
           i \in {k \in 1..(sidx - 1) : sorted_epkgs[k] \notin Range(removed_epkg)}}

\* C22: in the interlock pass the claimed files are those of the candidates
\* accepted so far and no others (none of a candidate rejected for an interlock,
\* a prerequisite or an installed efix); a candidate is rejected in the pass
\* only for a file of a candidate accepted before it, so that one that overlaps
\* only with rejected candidates is accepted.
C22_OnlyAcceptedClaimFiles ==
  /\ pc = "interlock" =>
       /\ Range(global_file_locks) = FilesOfKept
       /\ \A i \in DOMAIN removed_epkg :
            \E k \in 1..(sidx - 1) :
              /\ sorted_epkgs[k] \notin Range(removed_epkg)
              /\ Overlap(Info(sorted_epkgs[k]), Info(removed_epkg[i]))
  /\ pc = "done" =>
       \A i \in DOMAIN epkgs_info :
         (\A j \in DOMAIN epkgs_info :
            (j # i /\ Overlap(epkgs_info[i], epkgs_info[j])) =>
              epkgs_info[j].path \notin Accepted)
           => epkgs_info[i].path \in Accepted

\* The newest candidate lists f1, the middle one f1 and f2, the oldest one f2:
\* the newest and the oldest are accepted, the middle one is rejected.
C22_Witness ==
  /\ pc = "done"
  /\ Len(epkgs_info) = 3
  /\ sorted_epkgs = <<Path(1), Path(3)>>
  /\ Range(Info(Path(1)).files) = {"/usr/f1"}
  /\ Range(Info(Path(2)).files) = {"/usr/f1", "/usr/f2"}
  /\ Range(Info(Path(3)).files) = {"/usr/f2"}
  /\ Info(Path(1)).sec_from_epoch > Info(Path(2)).sec_from_epoch
  /\ Info(Path(2)).sec_from_epoch > Info(Path(3)).sec_from_epoch
  /\ epkgs_reject = <<InterlockReason(Path(2))>>

\* Two kept candidates with the same packaging time (known or not) and a common
\* file, neither of which has a file in common with any other kept candidate.
TiedAndOverlapping(i, j) ==
  /\ epkgs_info[i].sec_from_epoch = epkgs_info[j].sec_from_epoch
  /\ Overlap(epkgs_info[i], epkgs_info[j])
  /\ \A k \in DOMAIN epkgs_info \ {i, j} :
       ~Overlap(epkgs_info[k], epkgs_info[i]) /\ ~Overlap(epkgs_info[k], epkgs_info[j])

\* C24: of two candidates with the same packaging time that share a file, the
\* one earlier in the candidate list is accepted and the later one is rejected
\* as locked by a previous efix to install (epkgs_info is kept in the order of
\* the candidate list).
C24_TiesKeepInputOrder ==
  pc = "done" =>
    \A i, j \in DOMAIN epkgs_info :
      (i < j /\ TiedAndOverlapping(i, j)) =>
        /\ epkgs_info[i].path \in Accepted
        /\ epkgs_info[j].path \notin Accepted
        /\ InterlockReason(epkgs_info[j].path) \in Rejected

\* C8: once the rejection of a candidate is set it is not changed, and the
\* candidate is not processed further.
C8_RejectionIsFinal ==
  [][/\ (epkg.reject # <<>> /\ epkg'.path = epkg.path) => epkg'.reject = epkg.reject
     /\ (epkg.reject # <<>> /\ epkg'.path = epkg.path) =>
          epkgs_reject' = epkgs_reject /\ messages' = messages
     /\ \A i \in DOMAIN epkgs_info :
          epkgs_info[i].reject # <<>> => epkgs_info'[i].reject = epkgs_info[i].reject]_vars

\* The list is in ascending order of Python's string comparison.
IsAscending(l) == \A i, j \in DOMAIN l : i < j => ~StrLess(l[j], l[i])

\* The two lists have the same elements, each as many times.
SameElements(l, m) ==
  \A r \in Range(l) \cup Range(m) :
    Cardinality({i \in DOMAIN l : l[i] = r}) = Cardinality({i \in DOMAIN m : m[i] = r})

\* C12: every rejection reason produced is appended to the reject list when it
\* is set (the prerequisite reason once parsing has stopped, the installed-efix
\* reason and the interlock reason in the step that sets them), nothing else is
\* appended and nothing is taken away, and the list returned holds the same
\* reasons in ascending order of the reason strings.
C12_RejectListSorted ==
  [][/\ pc = "break" => epkgs_reject' = Append(epkgs_reject, epkg.reject)
     /\ (pc = "files" /\ epkg'.reject # epkg.reject /\ epkg'.path = epkg.path) =>
          epkgs_reject' = Append(epkgs_reject, epkg'.reject)
     /\ \A i \in DOMAIN epkgs_info :
          epkgs_info'[i].reject # epkgs_info[i].reject =>
            epkgs_reject' = Append(epkgs_reject, epkgs_info'[i].reject)
     /\ pc' # "done" =>
          \/ epkgs_reject' = epkgs_reject
          \/ /\ epkgs_reject' = Append(epkgs_reject, epkgs_reject'[Len(epkgs_reject')])
             /\ epkgs_reject'[Len(epkgs_reject')] # <<>>
             /\ epkgs_reject'[Len(epkgs_reject')] \in
                  {epkg.reject, epkg'.reject} \cup {epkgs_info'[i].reject : i \in DOMAIN epkgs_info'}
     /\ pc' = "done" =>
          /\ IsAscending(epkgs_reject')
          /\ SameElements(epkgs_reject, epkgs_reject')]_vars

\* The list returned begins with an interlock reason, the last one produced,
\* followed by a prerequisite reason.
C12_Witness ==
  /\ pc = "done"
  /\ Len(epkgs_reject) >= 2
  /\ epkgs_reject[1] = InterlockReason(Path(1))
  /\ IsMissingReason(epkgs_reject[2]) \/ IsMismatchReason(epkgs_reject[2])

\* The describe query of the candidate returned a non-zero code.
QueryFailed(path) == (<<"Cannot get efix information ">> \o path) \in Range(messages)

AfterCollection ==
  {"listings", "flrtvc", "report_failed", "check_only", "run_parser", "run_downloader",
   "download_only", "run_installer"}

\* C9: whatever the interleaving of run_lslpp and run_emgr, the check of the
\* listing files and every step after it happen only when both threads have
\* terminated, each with the return code of its command known, success or not.
C9_JoinedBeforeListingCheck ==
  (rpc \in AfterCollection \/ (rpc = "end" /\ "0.report" \in results.meta)) =>
     \A t \in Threads : thr[t] = "terminated" /\ trc[t] # "-1"

\* The listing check is reached with one collection failed and one succeeded.
C9_Witness ==
  /\ rpc = "listings"
  /\ trc["run_lslpp"] = "0"
  /\ trc["run_emgr"] = "1"
  /\ \A t \in Threads : thr[t] = "terminated"

\* C23: a collection thread runs with its listing file absent, whatever was
\* there when main began; and from the join to the end of main, for every
\* interleaving of the two threads, each listing file exists if and only if the
\* command of its thread returned 0 in this run.
C23_NoStaleListing ==
  /\ \A t \in Threads : thr[t] \in {"started", "ran"} => ~exists[t]
  /\ rpc \in AfterCollection \cup {"copy"} =>
       \A t \in Threads : exists[t] <=> trc[t] = "0"

\* Both listings were there when main began; after the join the one of lslpp,
\* whose command failed, is not, and the one of emgr, written anew, is.
C23_Witness ==
  /\ rpc = "listings"
  /\ \A t \in Threads : stale[t]
  /\ trc["run_lslpp"] = "1"
  /\ ~exists["run_lslpp"]
  /\ trc["run_emgr"] = "0"
  /\ exists["run_emgr"]

\* C10: when the run is over and a collection did not produce its listing file,
\* the run ended by fail_json with the message 'Failed to get vulnerabilities
\* report, system will not be updated', and nothing was parsed, downloaded,
\* resolved or installed.
C10_CollectionFailureFailsRun ==
  (rpc = "end" /\ \E t \in Threads : thr[t] = "terminated" /\ trc[t] # "0") =>
     /\ exit = "fail_json"
     /\ results.msg = "Failed to get vulnerabilities report, system will not be updated"
     /\ results.meta = {"0.report"}

\* The candidates of the accept list whose copy did not fail, in its order.
CopiedOf(l) == SelectSeq(l, LAMBDA p : (<<"Cannot copy file ">> \o p) \notin Range(messages))
Basenames(l) == [i \in DOMAIN l |-> basename(l[i])]

\* C11: the names given to geninstall are the basenames of the accept list, in
\* its order, but for the candidates whose copy failed; the names collected
\* while copying are those of the candidates gone through so far; and the accept
\* list is not changed once run_downloader has stored it.
C11_InstallerKeepsOrder ==
  /\ [](/\ "5.install" \in results.meta => geninstall = Basenames(CopiedOf(check))
        /\ rpc = "copy" => epkgs_base = Basenames(CopiedOf(SubSeq(check, 1, iidx - 1))))
  /\ [][rpc # "run_downloader" => check' = check]_vars

\* geninstall is given the first and the last of three candidates, that are not
\* in the order of their names, the copy of the second one having failed.
C11_Witness ==
  /\ rpc = "end"
  /\ check = <<Path(3), Path(1), Path(2)>>
  /\ geninstall = <<basename(Path(3)), basename(Path(2))>>

\* C13: with check_only set, main is never at the call of run_parser,
\* run_downloader or run_installer nor inside them, no result of theirs is in
\* meta, nothing is downloaded or given to geninstall, and changed stays False.
C13_CheckOnlyStops ==
  check_only =>
    /\ rpc \notin {"run_parser", "run_downloader", "download_only", "run_installer", "copy"}
    /\ results.meta \subseteq {"0.report"}
    /\ results.changed = FALSE
    /\ dst_files = {}
    /\ geninstall = <<>>

\* A run with check_only ended after the report.
C13_Witness ==
  /\ check_only
  /\ rpc = "end"
  /\ exit = "exit_json"
  /\ results.msg = "exit on check only"
  /\ results.meta = {"0.report"}

\* C14: with download_only set and check_only not set, main is never at the call
\* of run_installer nor inside it, nothing is given to geninstall, changed stays
\* False, and a run that gets through the report ends after the parsing, the
\* downloads and the check of the candidates.
C14_DownloadOnlyStops ==
  (download_only /\ ~check_only) =>
    /\ rpc \notin {"run_installer", "copy"}
    /\ "5.install" \notin results.meta
    /\ results.changed = FALSE
    /\ geninstall = <<>>
    /\ (rpc = "end" /\ exit = "exit_json") =>
         /\ results.msg = "exit on download only"
         /\ results.meta =
              {"0.report", "1.parse", "2.discover", "3.download", "4.1.reject", "4.2.check"}

\* A run with download_only ended with candidates accepted and none installed.
C14_Witness ==
  /\ download_only
  /\ ~check_only
  /\ rpc = "end"
  /\ exit = "exit_json"
  /\ Len(check) = 2

\* C15: with clean set, when main has ended through exit_json or fail_json the
\* working directory is gone, and so are the files downloaded during the run.
C15_CleanRemovesDownloads ==
  (clean /\ rpc = "end" /\ exit \in {"exit_json", "fail_json"}) =>
    /\ ~workdir_exists
    /\ dst_files = {}

\* ------------------------------------------------- to_utc_epoch: properties
\* The offset of a time zone abbreviation from UTC, in minutes.
OffsetMinutes(tz) ==
  CASE tz = "CDT" -> -300 [] tz = "IST" -> 330 [] tz = "JST" -> 540 [] tz = "UTC" -> 0

\* The seconds from 1970-01-01T00:00:00Z to the wall-clock time read as UTC, by
\* counting the days of the years and of the months gone by.
RECURSIVE DaysBeforeYear(_)
DaysBeforeYear(y) ==
  IF y = 1970 THEN 0
  ELSE DaysBeforeYear(y - 1)
         + (IF ((y - 1) % 4 = 0 /\ (y - 1) % 100 # 0) \/ (y - 1) % 400 = 0 THEN 366 ELSE 365)

RECURSIVE DaysBeforeMonth(_, _)
DaysBeforeMonth(y, m) ==
  IF m = 1 THEN 0
  ELSE DaysBeforeMonth(y, m - 1)
         + (CASE m - 1 \in {1, 3, 5, 7, 8, 10, 12} -> 31
              [] m - 1 \in {4, 6, 9, 11} -> 30
              [] OTHER -> IF (y % 4 = 0 /\ y % 100 # 0) \/ y % 400 = 0 THEN 29 ELSE 28)

WallClockAsUtc(d) ==
  ((DaysBeforeYear(d.year) + DaysBeforeMonth(d.year, d.month) + d.day - 1) * 24 + d.hour) * 3600
    + d.minute * 60 + d.second

\* The date exists in the calendar.
ValidDate(d) ==
  /\ d.fmt \in {"tz", "notz"}
  /\ ~(d.month = 2 /\ d.day > (IF d.year % 4 = 0 THEN 29 ELSE 28))

\* C18: for a date with a time zone of the table, the value returned is the
\* wall-clock time read as UTC less the offset of the time zone; for a date
\* without time zone it is the wall-clock time read as UTC; and 'Mon Oct 9
\* 23:35:09 CDT 2017' gives 1507610109, the epoch of 2017-10-10T04:35:09Z.
C18_EpochOfDate ==
  (dpc = "return" /\ ValidDate(date)) =>
    /\ (date.fmt = "tz" /\ date.tz \in {"CDT", "IST", "JST", "UTC"}) =>
         /\ epoch.sec = WallClockAsUtc(date) - OffsetMinutes(date.tz) * 60
         /\ epoch.msg = ""
    /\ date.fmt = "notz" =>
         /\ epoch.sec = WallClockAsUtc(date)
         /\ epoch.msg = ""
    /\ (date.fmt = "tz" /\ date.tz = "CDT" /\ date.year = 2017 /\ date.month = 10
          /\ date.day = 9 /\ date.hour = 23) => epoch.sec = 1507610109

\* 'Mon Oct 9 23:35:09 CDT 2017' has been converted.
C18_Witness ==
  /\ dpc = "return"
  /\ date = [fmt |-> "tz", year |-> 2017, month |-> 10, day |-> 9, hour |-> 23,
             minute |-> 35, second |-> 9, tz |-> "CDT"]
  /\ epoch.sec = 1507610109

\* ---------------------------------------------- parse_lpps_info: properties
\* The line has three fields or more and a level of numeric segments.
WellFormed(line) == line.nfields >= 3 /\ ~ValueError(line.level)

\* C17: a level with a segment that is not numeric is an error for its line
\* only: parsing goes on to the end of the file, and the table returned has the
\* filesets of the well-formed lines, before and after, and no other.
C17_BadSegmentSkipsLine ==
  /\ lpc # "raise"
  /\ lpc = "return" =>
       DOMAIN lpps_lvl = {lslpp[i].name : i \in {k \in DOMAIN lslpp : WellFormed(lslpp[k])}}

\* ------------------------------------------------------ download: properties
\* C19: download returns (it does not raise), and the value returned is True
\* exactly when the destination was there at the call or the last wget run
\* returned 0.
C19_DownloadResult ==
  /\ wpc # "raise"
  /\ wpc = "return" => (res <=> (dst_existed \/ wrc = "0"))

\* ---------------------------------------------------- parse_emgr: properties
\* The lines k..(i - 1) of the file have no 'EFIX ID' line.
NoEfixId(k, i) == \A j \in k..(i - 1) : emgr[j].kind # "EFIX ID"

\* The index of the line that opened the block line i is in: the first 'EFIX
\* LABEL' line after the last 'EFIX ID' line before line i (or after the
\* beginning of the file); 0 when no label is open at line i.
OpeningLine(i) ==
  LET opening == {k \in 1..(i - 1) : /\ emgr[k].kind = "EFIX LABEL"
                                     /\ NoEfixId(k, i)
                                     /\ \A j \in 1..(k - 1) :
                                          emgr[j].kind = "EFIX LABEL" => ~NoEfixId(j, k)}
  IN IF opening = {} THEN 0 ELSE CHOOSE k \in opening : TRUE

\* C20: a LOCATION or PACKAGE line read while the label of its block is open
\* is added to the file set or the package set of that label, and the record of
\* no other label changes; one read while no label is open changes no record;
\* an 'EFIX LABEL' line read while no label is open opens an empty record for
\* its label; and the current label is that of the block, none after 'EFIX ID'.
C20_LinesGoToBlockLabel ==
  [][(gpc = "loop" /\ gidx <= Len(emgr)) =>
       LET line == emgr[gidx]
           open == OpeningLine(gidx)
           lbl == IF open = 0 THEN "" ELSE emgr[open].arg
       IN /\ label = lbl
          /\ (line.kind = "EFIX ID") => (label' = "" /\ emgr_efixes' = emgr_efixes)
          /\ (line.kind \in {"LOCATION", "PACKAGE"} /\ open = 0) => emgr_efixes' = emgr_efixes
          /\ (line.kind = "EFIX LABEL" /\ open = 0) =>
               /\ label' = line.arg
               /\ emgr_efixes'[line.arg] = [files |-> {}, packages |-> {}]
          /\ (line.kind = "LOCATION" /\ open # 0) =>
               /\ emgr_efixes'[lbl].files = emgr_efixes[lbl].files \cup {line.arg}
               /\ emgr_efixes'[lbl].packages = emgr_efixes[lbl].packages
          /\ (line.kind = "PACKAGE" /\ open # 0) =>
               /\ emgr_efixes'[lbl].packages = emgr_efixes[lbl].packages \cup {line.arg}
               /\ emgr_efixes'[lbl].files = emgr_efixes[lbl].files
          /\ \A l \in DOMAIN emgr_efixes :
               (l # lbl /\ ~(line.kind = "EFIX LABEL" /\ open = 0 /\ l = line.arg)) =>
                 emgr_efixes'[l] = emgr_efixes[l]]_vars

\* Two blocks have been read: IJ1 with /usr/f1, then, after 'EFIX ID', IJ2
\* with no file.
C20_Witness ==
  /\ gpc = "return"
  /\ DOMAIN emgr_efixes = {"IJ1", "IJ2"}
  /\ emgr_efixes["IJ1"].files = {"/usr/f1"}
  /\ emgr_efixes["IJ2"].files = {}
  /\ emgr[3].kind = "EFIX ID"

====
